---------------------------- MODULE Spec2Model ----------------------------
(***************************************************************************)
(* ESP32 NTP Nixie clock: time-source resolution (NTP with retries, RTC    *)
(* fallback), the one-second display scheduler (updateDisplay) and the     *)
(* shield's digit / indicator / colour control surface.                    *)
(*                                                                         *)
(* Source files: src/NTP.h holds NTP.h (lines 1-168) followed by the       *)
(* sketch (lines 170-688); src/unnamed/part_000 holds NixieTubeShield.h    *)
(* (lines 1-304) followed by LEDControl.h (lines 306-442).                 *)
(***************************************************************************)
EXTENDS Integers, Sequences, FiniteSets, TLC

(***************************************************************************)
(* Build-time configuration                                                *)
(***************************************************************************)
RETRIES == 20
NTP_PACKET_SIZE == 48
RTC_TIMEOUT == 3000
SYNC_INTERVAL_SECONDS == 3600
CLOCK_OFF_HOUR == 23
CLOCK_ON_HOUR == 7
HOUR_FORMAT_12 == TRUE
SUPPRESS_LEADING_ZEROS == TRUE
BLANK_DIGIT == 10
DIGIT_BLANK == 255

\* RGB24 colour constants of LEDControl.h
black == <<0, 0, 0>>
blue == <<0, 0, 127>>
green == <<0, 127, 0>>
red == <<127, 0, 0>>

(***************************************************************************)
(* Bounds of the model                                                     *)
(***************************************************************************)
\* Day (days since 1970-01-01, local calendar) on which the model's clock runs.
ModelDay == 18642
\* The clock is observed at the seconds 58, 59, 0, 1, ..., SecSpan of a minute.
SecSpan == 1
\* Hours of uptime observed while no time has been set yet.
ColdHours == 1

(***************************************************************************)
(* TimeLib: calendar arithmetic on time_t (seconds since 1970-01-01)       *)
(***************************************************************************)
hour(t) == (t \div 3600) % 24
minute(t) == (t \div 60) % 60
second(t) == t % 60
weekday(t) == (((t \div 86400) + 4) % 7) + 1

hourFormat12(t) ==
  IF hour(t) = 0 THEN 12
  ELSE IF hour(t) > 12 THEN hour(t) - 12
  ELSE hour(t)

\* y counts years since 1970, as tmElements_t.Year does
LEAP_YEAR(y) ==
  /\ (1970 + y) % 4 = 0
  /\ ((1970 + y) % 100 # 0 \/ (1970 + y) % 400 = 0)

YearDays(y) == IF LEAP_YEAR(y) THEN 366 ELSE 365

MonthDays(m, y) ==
  IF m = 2 THEN (IF LEAP_YEAR(y) THEN 29 ELSE 28)
  ELSE <<31, 28, 31, 30, 31, 30, 31, 31, 30, 31, 30, 31>>[m]

RECURSIVE YearFrom(_, _, _)
\* breakTime's year loop: <<years since 1970, day of the year (0-based)>>
YearFrom(y, acc, days) ==
  IF acc + YearDays(y) <= days
  THEN YearFrom(y + 1, acc + YearDays(y), days)
  ELSE <<y, days - acc>>

RECURSIVE MonthFrom(_, _, _)
\* breakTime's month loop: <<month 1..12, day of the month 1..31>>
MonthFrom(m, rem, y) ==
  IF rem >= MonthDays(m, y)
  THEN MonthFrom(m + 1, rem - MonthDays(m, y), y)
  ELSE <<m, rem + 1>>

breakTime(t) ==
  LET yd == YearFrom(0, 0, t \div 86400)
      md == MonthFrom(1, yd[2], yd[1])
  IN [Second |-> second(t), Minute |-> minute(t), Hour |-> hour(t),
      Wday |-> weekday(t), Day |-> md[2], Month |-> md[1], Year |-> yd[1]]

year(t) == breakTime(t).Year + 1970
month(t) == breakTime(t).Month
day(t) == breakTime(t).Day

RECURSIVE DaysBeforeYear(_)
DaysBeforeYear(y) == IF y = 0 THEN 0 ELSE DaysBeforeYear(y - 1) + YearDays(y - 1)

RECURSIVE DaysBeforeMonth(_, _)
DaysBeforeMonth(m, y) ==
  IF m = 1 THEN 0 ELSE DaysBeforeMonth(m - 1, y) + MonthDays(m - 1, y)

makeTime(tm) ==
  (DaysBeforeYear(tm.Year) + DaysBeforeMonth(tm.Month, tm.Year) + (tm.Day - 1)) * 86400
  + tm.Hour * 3600 + tm.Minute * 60 + tm.Second

(***************************************************************************)
(* Timezone: TZ(usPDT, usPST), US Pacific                                  *)
(***************************************************************************)
usPDT == [week |-> 2, dow |-> 1, month |-> 3, hour |-> 2, offset |-> -420]
usPST == [week |-> 1, dow |-> 1, month |-> 11, hour |-> 2, offset |-> -480]

\* Timezone::toTime_t: the local instant at which rule r takes effect in year yr
RuleTime(r, yr) ==
  LET t0 == makeTime([Second |-> 0, Minute |-> 0, Hour |-> r.hour, Wday |-> 0,
                      Day |-> 1, Month |-> r.month, Year |-> yr - 1970])
  IN t0 + (7 * (r.week - 1) + ((r.dow - weekday(t0) + 7) % 7)) * 86400

utcIsDST(utc) ==
  \E yr \in {year(utc)} :
     /\ utc >= RuleTime(usPDT, yr) - usPST.offset * 60
     /\ utc < RuleTime(usPST, yr) - usPDT.offset * 60

toLocal(utc) ==
  IF utcIsDST(utc) THEN utc + usPDT.offset * 60 ELSE utc + usPST.offset * 60


(***************************************************************************)
(* LEDControl and NixieTubeShield: the control surface of the display.     *)
(* A shield value s is a record                                            *)
(*   digits : the six stored digit codes, digits[k+1] = C++ digits[k]      *)
(*            (order NX6, NX5, NX4, NX3, NX2, NX1)                         *)
(*   dots   : dotsEnabled            hv : the HV_ENABLE output             *)
(*   led    : the colour last passed to setLEDColor                        *)
(*   shown  : the frame (digit codes and indicator state) last committed   *)
(*            by show()                                                    *)
(*   log    : the shield operations performed, in program order, by the    *)
(*            routine that ran last (setup or updateDisplay)               *)
(*   busy   : the milliseconds that routine spent in delay()               *)
(* Every operation maps a shield value to the shield value after it, so    *)
(* that a routine is the composition of its operations in source order.    *)
(* The loops below test s.busy (which is never negative) only to have the  *)
(* shield value of one pass evaluated before the next pass starts.         *)
(***************************************************************************)
B2N(b) == IF b THEN 1 ELSE 0

NUMERIC_DIGITS == <<0, 1, 2, 3, 4, 5, 6, 7, 8, 9, DIGIT_BLANK>>

colorWheel(wheelPos) ==
  LET w == wheelPos % 256
  IN IF w < 85 THEN <<255 - w * 3, w * 3, 0>>
     ELSE IF w < 170 THEN <<0, 255 - (w - 85) * 3, (w - 85) * 3>>
     ELSE <<(w - 170) * 3, 0, 255 - (w - 170) * 3>>

setLEDColor(s, c) ==
  [s EXCEPT !.led = c, !.log = Append(@, <<"led", c[1], c[2], c[3]>>)]

hvEnable(s, state) ==
  [s EXCEPT !.hv = state, !.log = Append(@, <<"hv", B2N(state)>>)]

dotsEnable(s, state) ==
  [s EXCEPT !.dots = state, !.log = Append(@, <<"dots", B2N(state)>>)]

\* setNX<n>Digit(d): digits[6 - n] = NUMERIC_DIGITS[d].  The index is not
\* tested: for a d outside 0..10 the read leaves the table, and what it finds
\* there is the shield's field stray, which a specification that makes such
\* reads draws at its start.
setNXDigit(s, n, d) ==
  [s EXCEPT !.digits[7 - n] = IF d + 1 \in DOMAIN NUMERIC_DIGITS
                              THEN NUMERIC_DIGITS[d + 1] ELSE s.stray,
            !.log = Append(@, <<"nx", n, d>>)]

setNX1Digit(s, d) == setNXDigit(s, 1, d)
setNX2Digit(s, d) == setNXDigit(s, 2, d)
setNX3Digit(s, d) == setNXDigit(s, 3, d)
setNX4Digit(s, d) == setNXDigit(s, 4, d)
setNX5Digit(s, d) == setNXDigit(s, 5, d)
setNX6Digit(s, d) == setNXDigit(s, 6, d)

\* show(): latch the stored digit codes and the indicator state.  Here the
\* frame is kept as the six codes and the indicator state handed over; showPins
\* below follows the same call down to the two words and the pins.
show(s) ==
  [s EXCEPT !.shown = [digits |-> s.digits, dots |-> s.dots],
            !.log = Append(@, <<"show">>)]

\* show() down to the pins.  A 32-bit word is kept as the set of the positions
\* of its asserted bits.
SymbolArray == <<{0}, {1}, {2}, {3}, {4}, {5}, {6}, {7}, {8}, {9}>>
UpperDotsMask == {31}
LowerDotsMask == {30}

\* SymbolArray[digits[k]].  The code 0xFF of a blank slot is no index of the ten
\* entries: the read goes past the array, and `beyond` is the unsigned int it
\* finds there.
Symbol(code, beyond) ==
  IF code + 1 \in DOMAIN SymbolArray THEN SymbolArray[code + 1] ELSE beyond

\* (unsigned long) w << n
ShiftLeft(w, n) == {b + n : b \in w} \cap (0 .. 31)

\* Variant of Var32 that packs the three codes eight bits apart
Var32Narrow(a, b, c, dotsEnabled, beyond) ==
  LET v == ShiftLeft(Symbol(a, beyond), 16) \cup ShiftLeft(Symbol(b, beyond), 8)
           \cup Symbol(c, beyond)
  IN IF dotsEnabled THEN v \cup LowerDotsMask \cup UpperDotsMask
     ELSE v \ (LowerDotsMask \cup UpperDotsMask)

\* Var32 as show() builds it from three stored codes and dotsEnabled
Var32(a, b, c, dotsEnabled, beyond) ==
  LET v == ShiftLeft(Symbol(a, beyond), 20) \cup ShiftLeft(Symbol(b, beyond), 10)
           \cup Symbol(c, beyond)
      l == IF dotsEnabled THEN v \cup LowerDotsMask ELSE v \ LowerDotsMask
  IN IF dotsEnabled THEN l \cup UpperDotsMask ELSE l \ UpperDotsMask

\* the byte SPI.transfer(w >> n) sends: the low eight bits of its argument
ByteOf(w, n) ==
  LET bit(i) == IF n + i \in w THEN 2 ^ i ELSE 0
  IN bit(0) + bit(1) + bit(2) + bit(3) + bit(4) + bit(5) + bit(6) + bit(7)

\* Variant of spiWord that sends the least significant byte first
spiWordLowFirst(w) ==
  <<<<"spi", ByteOf(w, 0)>>, <<"spi", ByteOf(w, 8)>>,
    <<"spi", ByteOf(w, 16)>>, <<"spi", ByteOf(w, 24)>>>>

\* the four transfers of one word
spiWord(w) ==
  <<<<"spi", ByteOf(w, 24)>>, <<"spi", ByteOf(w, 16)>>,
    <<"spi", ByteOf(w, 8)>>, <<"spi", ByteOf(w, 0)>>>>

\* The words show() builds from the stored codes (digits[0] is the first of
\* the sequence) and what it does on the latch pin and the SPI bus
showPins(digits, dotsEnabled, beyond) ==
  LET reg1 == Var32(digits[1], digits[2], digits[3], dotsEnabled, beyond)
      reg0 == Var32(digits[4], digits[5], digits[6], dotsEnabled, beyond)
  IN [words |-> <<reg1, reg0>>,
      bus |-> <<<<"latch", 0>>>> \o spiWord(reg1) \o spiWord(reg0) \o <<<<"latch", 1>>>>]

\* delay(ms) changes nothing on the shield; busy keeps the time spent
delay(s, ms) == [s EXCEPT !.busy = @ + ms, !.log = Append(@, <<"delay", ms>>)]

\* the same value in all six slots
SetAllDigits(s, d) ==
  setNX6Digit(setNX5Digit(setNX4Digit(setNX3Digit(setNX2Digit(setNX1Digit(s, d), d), d), d), d), d)

\* Variant of AntiPoisoningBody that enables the dots as they were before the step
AntiPoisoningBodyKeepDots(s, i, dots) ==
  LET s1 == show(SetAllDigits(s, i))
      s2 == delay(s1, 500)
      s3 == setLEDColor(s2, <<IF i % 3 = 0 THEN 255 ELSE 0,
                              IF i % 3 = 1 THEN 255 ELSE 0,
                              IF i % 3 = 2 THEN 255 ELSE 0>>)
  IN dotsEnable(s3, dots)

\* The body of doAntiPoisoning's inner loop for step value i; dots is the
\* value of the local variable before the step.
AntiPoisoningBody(s, i, dots) ==
  LET s1 == show(SetAllDigits(s, i))
      s2 == delay(s1, 500)
      s3 == setLEDColor(s2, <<IF i % 3 = 0 THEN 255 ELSE 0,
                              IF i % 3 = 1 THEN 255 ELSE 0,
                              IF i % 3 = 2 THEN 255 ELSE 0>>)
  IN dotsEnable(s3, ~dots)

RECURSIVE AntiPoisoningLoop(_, _, _)
\* k counts the steps done: j = k \div 11, i = k % 11
AntiPoisoningLoop(s, k, dots) ==
  IF s.busy >= 0 /\ k \div 11 < 4
  THEN AntiPoisoningLoop(AntiPoisoningBody(s, k % 11, dots), k + 1, ~dots)
  ELSE s

doAntiPoisoning(s) == AntiPoisoningLoop(dotsEnable(s, FALSE), 0, FALSE)

\* Whole seconds the routine that ran last spent in delay()
BlockedSeconds(s) == s.busy \div 1000

(***************************************************************************)
(* DS1307 real-time clock registers (seven BCD bytes)                      *)
(***************************************************************************)
decToBcd(val) == ((val \div 10) * 16 + (val % 10)) % 256
\* Variant of bcdToDec that takes the low digit modulo 10
bcdToDecLowTen(val) == ((val \div 16) * 10 + (val % 10)) % 256

bcdToDec(val) == ((val \div 16) * 10 + (val % 16)) % 256

\* Variant of setRTCDateTime that writes the fields as binary numbers
setRTCDateTimeBinary(m) ==
  <<m.Second, m.Minute, m.Hour, m.Wday, m.Day, m.Month, m.Year>>

\* the register bytes setRTCDateTime writes for the broken-down time m
setRTCDateTime(m) ==
  <<decToBcd(m.Second), decToBcd(m.Minute), decToBcd(m.Hour), decToBcd(m.Wday),
    decToBcd(m.Day), decToBcd(m.Month), decToBcd(m.Year)>>

\* the broken-down time getRTCTime builds from the register bytes
getRTCTime(regs) ==
  [Second |-> bcdToDec(regs[1]), Minute |-> bcdToDec(regs[2]),
   Hour |-> bcdToDec(regs[3] % 64), Wday |-> bcdToDec(regs[4]),
   Day |-> bcdToDec(regs[5]), Month |-> bcdToDec(regs[6]),
   Year |-> bcdToDec(regs[7])]

(***************************************************************************)
(* NTP::_getTime: the time a reply carries                                 *)
(***************************************************************************)
\* An unsigned long is kept as its two 16-bit halves <<high, low>>, so that
\* every value of the 32 bits can be written down.
SeventyYears == <<33706, 32384>>   \* 2208988800UL = 0x83AA7E80

\* a + b and a - b in 32-bit unsigned arithmetic
Add32(a, b) ==
  LET low == a[2] + b[2]
  IN <<(a[1] + b[1] + low \div 65536) % 65536, low % 65536>>

\* Variant of Sub32 that drops the borrow out of the low half
Sub32NoBorrow(a, b) == <<(a[1] - b[1]) % 65536, (a[2] - b[2]) % 65536>>

Sub32(a, b) ==
  LET borrow == IF a[2] < b[2] THEN 1 ELSE 0
  IN <<(a[1] - b[1] - borrow) % 65536, (a[2] - b[2]) % 65536>>

\* the number an unsigned long below 2^31 stands for
Value32(w) == w[1] * 65536 + w[2]

\* A reply as parsePacket() and read() deliver it: its size and the bytes 40..43
\* of the buffer, the seconds of the transmit timestamp
NoReply == [size |-> 0, stamp |-> <<0, 0, 0, 0>>]

\* packetBuffer[40] << 24 | packetBuffer[41] << 16 | packetBuffer[42] << 8 |
\* packetBuffer[43]
secsSince1900(p) == <<p.stamp[1] * 256 + p.stamp[2], p.stamp[3] * 256 + p.stamp[4]>>

\* the unsigned long _getTime returns once the wait for the reply is over
_getTime(p) ==
  IF p.size = NTP_PACKET_SIZE
  THEN Sub32(secsSince1900(p), SeventyYears)
  ELSE <<0, 0>>

(***************************************************************************)
(* The display programs of updateDisplay                                   *)
(***************************************************************************)
\* Variant of InOnWindow that opens the window one hour late
InOnWindowLate(hr) == hr > CLOCK_ON_HOUR /\ hr < CLOCK_OFF_HOUR

\* the hour test of updateDisplay: "Clock is on between these hours"
InOnWindow(hr) == hr >= CLOCK_ON_HOUR /\ hr < CLOCK_OFF_HOUR

\* Variant of ShutDown that turns the LEDs off before the frame is committed
ShutDownColourFirst(s) ==
  LET s1 == dotsEnable(hvEnable(s, FALSE), FALSE)
      s2 == setLEDColor(SetAllDigits(s1, BLANK_DIGIT), black)
  IN show(s2)

\* the orderly shutdown of the On -> Off transition
ShutDown(s) ==
  LET s1 == hvEnable(s, FALSE)
      s2 == dotsEnable(s1, FALSE)
      s3 == setNX1Digit(s2, BLANK_DIGIT)
      s4 == setNX2Digit(s3, BLANK_DIGIT)
      s5 == setNX3Digit(s4, BLANK_DIGIT)
      s6 == setNX4Digit(s5, BLANK_DIGIT)
      s7 == setNX5Digit(s6, BLANK_DIGIT)
      s8 == setNX6Digit(s7, BLANK_DIGIT)
      s9 == show(s8)
  IN setLEDColor(s9, black)

\* Variant of PowerOff that leaves the LED colour as it is
PowerOffKeepColour(s, on) ==
  IF on THEN show(SetAllDigits(dotsEnable(hvEnable(s, FALSE), FALSE), BLANK_DIGIT)) ELSE s

\* Variant of PowerOff that shuts down on every tick outside the window
PowerOffEveryTick(s, on) == ShutDown(s)

\* the else-branch of the hour test: shut down only when the clock was on
PowerOff(s, on) == IF on THEN ShutDown(s) ELSE s

\* the then-branch of the hour test: enable the high voltage when the clock was off
PowerOn(s, on) == IF ~on THEN hvEnable(s, TRUE) ELSE s

\* Variant of Dispatch that tests the 10 minute event before the 15 minute event
DispatchTenFirst(m, prev) ==
  IF m # prev /\ m = 0 THEN "AntiPoisoning"
  ELSE IF m # prev /\ m # 0 /\ m % 10 = 0 THEN "ShowDate"
  ELSE IF m # prev /\ m # 0 /\ m % 15 = 0 THEN "Rainbow"
  ELSE "ShowTime"

\* "Dispatch events in priority order": the if / else-if chain on
\* (minutes, previousMinute)
Dispatch(m, prev) ==
  IF m # prev /\ m = 0 THEN "AntiPoisoning"
  ELSE IF m # prev /\ m # 0 /\ m % 15 = 0 THEN "Rainbow"
  ELSE IF m # prev /\ m # 0 /\ m % 10 = 0 THEN "ShowDate"
  ELSE "ShowTime"

EventPrograms == {"AntiPoisoning", "Rainbow", "ShowDate"}

\* Variant of NextPreviousMinute that stores the minute on every tick
StoreMinuteAlways(prog, m, prev) == m

\* previousMinute after the dispatch: each event branch stores minutes
NextPreviousMinute(prog, m, prev) == IF prog \in EventPrograms THEN m ELSE prev

\* Variant of NextDotToggle that flips dotToggle in every display program
NextDotToggleAlways(prog, toggle) == ~toggle

\* dotToggle after the dispatch: only the time display flips it
NextDotToggle(prog, toggle) == IF prog = "ShowTime" THEN ~toggle ELSE toggle

AntiPoisoningSweep(s) == doAntiPoisoning(setLEDColor(s, red))

RECURSIVE RainbowCycle(_, _)
\* k counts the colour steps done: cycles = k \div 16, cycle = 16 * (k % 16)
RainbowCycle(s, k) ==
  IF s.busy >= 0 /\ k \div 16 < 4
  THEN RainbowCycle(delay(setLEDColor(s, colorWheel(16 * (k % 16))), 400), k + 1)
  ELSE s

\* Variant of RainbowSweep that runs the colours before it blanks the tubes
RainbowSweepColourFirst(s) ==
  show(SetAllDigits(dotsEnable(RainbowCycle(s, 0), FALSE), BLANK_DIGIT))

RainbowSweep(s) ==
  RainbowCycle(show(SetAllDigits(dotsEnable(s, FALSE), BLANK_DIGIT)), 0)

\* Variant of LeadingDigit that takes 10 for a value below 10
LeadingDigitAbove(v, suppress) ==
  IF v > 10 THEN v \div 10
  ELSE IF suppress THEN BLANK_DIGIT ELSE 0

\* the value set for the left digit of v under either setting of the policy
LeadingDigit(v, suppress) ==
  IF v >= 10 THEN v \div 10
  ELSE IF suppress THEN BLANK_DIGIT ELSE 0

\* C's a % b for b > 0: the remainder takes the sign of the dividend
CRem(a, b) == IF a >= 0 THEN a % b ELSE 0 - ((0 - a) % b)

\* the tens digit of a field under the leading-zero policy
TensDigit(v) == LeadingDigit(v, SUPPRESS_LEADING_ZEROS)

\* Variant of ShowDate that shows the day before the month
ShowDateDayFirst(s, localTime) ==
  LET s1 == dotsEnable(setLEDColor(dotsEnable(s, FALSE), blue), TRUE)
      now_day == day(localTime)
      s2 == setNX2Digit(setNX1Digit(s1, TensDigit(now_day)), now_day % 10)
      now_mon == month(localTime)
      s3 == setNX4Digit(setNX3Digit(s2, TensDigit(now_mon)), now_mon % 10)
      now_year == year(localTime) - 2000
      s4 == setNX6Digit(setNX5Digit(s3, TensDigit(now_year)), CRem(now_year, 10))
  IN delay(show(s4), 10000)

ShowDate(s, localTime) ==
  LET s1 == dotsEnable(setLEDColor(dotsEnable(s, FALSE), blue), TRUE)
      now_mon == month(localTime)
      s2 == setNX2Digit(setNX1Digit(s1, TensDigit(now_mon)), now_mon % 10)
      now_day == day(localTime)
      s3 == setNX4Digit(setNX3Digit(s2, TensDigit(now_day)), now_day % 10)
      now_year == year(localTime) - 2000
      s4 == setNX6Digit(setNX5Digit(s3, TensDigit(now_year)), CRem(now_year, 10))
  IN delay(show(s4), 10000)

\* toggle is dotToggle on entry
ShowTime(s, localTime, toggle) ==
  LET s1 == dotsEnable(s, toggle)
      now_hour == IF HOUR_FORMAT_12 THEN hourFormat12(localTime) ELSE hour(localTime)
      \* (int)(colorInc * now_hour) with colorInc = 256 / 12.0 or 256 / 24.0
      wheel == (256 * now_hour) \div (IF HOUR_FORMAT_12 THEN 12 ELSE 24)
      s2 == setLEDColor(s1, colorWheel(wheel))
      s3 == setNX2Digit(setNX1Digit(s2, TensDigit(now_hour)), now_hour % 10)
      now_min == minute(localTime)
      s4 == setNX4Digit(setNX3Digit(s3, now_min \div 10), now_min % 10)
      now_sec == second(localTime)
      s5 == setNX6Digit(setNX5Digit(s4, now_sec \div 10), now_sec % 10)
  IN show(s5)

RunProgram(prog, s, localTime, toggle) ==
  CASE prog = "AntiPoisoning" -> AntiPoisoningSweep(s)
    [] prog = "Rainbow" -> RainbowSweep(s)
    [] prog = "ShowDate" -> ShowDate(s, localTime)
    [] OTHER -> ShowTime(s, localTime, toggle)

(***************************************************************************)
(* State                                                                   *)
(***************************************************************************)
VARIABLES
  sysTime,         \* TimeLib: the system clock (UTC seconds), the WallClock
  timeStatus,      \* TimeLib: "timeNotSet", "timeNeedsSync" or "timeSet"
  nextSyncTime,    \* TimeLib: when now() calls the sync provider next
  previousMinute,  \* sketch globals
  minutes,
  dotToggle,
  clockOn,
  previousSecond,
  shield,          \* SHIELD, as described above
  rtc,             \* the DS1307 registers as last written by the program
  pc,              \* where the single thread of control is
  ret,             \* where now() returns to once the sync provider is done
  gt,              \* NTP::getTime's locals and what it has done so far
  program,         \* what the latest call of updateDisplay (or setup) ran
  occ,             \* the local minute of the latest On tick and the number
                   \* of event programs dispatched in it so far
  wire             \* the two words of the show() call followed down to the
                   \* pins, and what it did on the latch pin and the SPI bus

vars == <<sysTime, timeStatus, nextSyncTime, previousMinute, minutes, dotToggle,
          clockOn, previousSecond, shield, rtc, pc, ret, gt, program, occ, wire>>

(***************************************************************************)
(* The instants at which the model observes the clock                      *)
(***************************************************************************)
\* The loop is observed in the first on-hour in the minute before and the minute
\* of an event of each kind, in the last on-hour around one event, and in the
\* minute on either side of the two power transitions.
SampleMinutes == {59, 0, 9, 10, 14, 15, 29, 30}
LateMinutes == {14, 15, 59}
SampleSeconds == {58, 59} \cup (0 .. SecSpan)

LocalAt(h, m, s) == ModelDay * 86400 + h * 3600 + m * 60 + s
\* ModelDay lies in standard time
ToUTC(local) == local - usPST.offset * 60

Instants ==
  {ToUTC(LocalAt(7, m, s)) : m \in SampleMinutes, s \in SampleSeconds}
  \cup {ToUTC(LocalAt(22, m, s)) : m \in LateMinutes, s \in SampleSeconds}
  \cup {ToUTC(LocalAt(6, 59, s)) : s \in SampleSeconds}
  \cup {ToUTC(LocalAt(23, 0, s)) : s \in SampleSeconds}

\* Uptimes at which the loop is observed while no time has been set
ColdInstants == {h * 3600 + d : h \in 0 .. ColdHours, d \in {1, 21}}

\* Times a network reply may carry.  Those at second 37 let the loop start,
\* after setup's 22 s anti-poisoning sweep, on an observed instant.
NetTimes == {ToUTC(LocalAt(6, 59, 37)), ToUTC(LocalAt(7, 14, 59))}

\* Counts the hardware clock may hold when it is read
RtcTimes == {ToUTC(LocalAt(7, 14, 36))}

\* Polls of WiFi.status() that WIFI_Connect finds not connected
WifiPolls == {0, 40}

\* The reply of 48 bytes whose transmit timestamp is t seconds after 1970
PacketFor(t) ==
  LET w == Add32(<<t \div 65536, t % 65536>>, SeventyYears)
  IN [size |-> NTP_PACKET_SIZE,
      stamp |-> <<w[1] \div 256, w[1] % 256, w[2] \div 256, w[2] % 256>>]

\* What udp.parsePacket() may find after the one-second wait: a reply that
\* carries one of the times above, none, one with 20 bytes of authentication
\* appended, and one of 48 bytes whose transmit timestamp is zero
NetReplies ==
  {PacketFor(t) : t \in NetTimes}
  \cup {NoReply,
        [PacketFor(ToUTC(LocalAt(7, 14, 59))) EXCEPT !.size = 68],
        [size |-> NTP_PACKET_SIZE, stamp |-> <<0, 0, 0, 0>>]}

\* When, in milliseconds after _getRTCTime's first read, the chip's seconds
\* register changes (<<>>: never, the oscillator is stopped), and how long one
\* read of the registers with the test that follows it takes
ChangeTimes == {<<400>>, <<2750>>, <<>>}
ReadTimes == {700}

(***************************************************************************)
(* Initial state: the globals as constructed, before setup() runs          *)
(***************************************************************************)
\* getTime's locals (i, result) and what the call has done: the number of calls
\* of _getTime and of _getRTCTime, whether the latter saw the seconds change, and
\* the number of requests the network left unanswered before it would answer;
\* the reply the answered requests received and the unsigned long _getTime made
\* of it; the writes of the hardware clock; the reads of _getRTCTime's polling
\* loop and whether the last of them showed a new second
WireIdle == [words |-> <<{}, {}>>, bus |-> <<>>]

\* A tmElements_t that has not been filled
NoTm ==
  [Second |-> 0, Minute |-> 0, Hour |-> 0, Wday |-> 0, Day |-> 0, Month |-> 0, Year |-> 0]

\* tm is the broken-down time getTime hands to setRTCDateTime, m the one
\* _getRTCTime's latest call of getRTCTime filled
GtIdle ==
  [i |-> 0, result |-> 0, calls |-> 0, rtcReads |-> 0, rtcChanged |-> FALSE, fails |-> 0,
   pkt |-> NoReply, word |-> <<0, 0>>, rtcWrites |-> 0, polls |-> 0, rtcSeen |-> FALSE,
   tm |-> NoTm, m |-> NoTm]

ShieldInit ==
  [digits |-> <<DIGIT_BLANK, DIGIT_BLANK, DIGIT_BLANK, DIGIT_BLANK, DIGIT_BLANK, DIGIT_BLANK>>,
   dots |-> FALSE, hv |-> FALSE, led |-> black,
   shown |-> [digits |-> <<>>, dots |-> FALSE], log |-> <<>>, busy |-> 0]

Init ==
  /\ sysTime = 0
  /\ timeStatus = "timeNotSet"
  /\ nextSyncTime = 0
  /\ previousMinute = 0
  /\ minutes = 0
  /\ dotToggle = FALSE
  /\ clockOn = TRUE
  /\ previousSecond = 0
  /\ shield = ShieldInit
  /\ rtc \in {setRTCDateTime(breakTime(t)) : t \in RtcTimes}
  /\ pc = "setup"
  /\ ret = "setup2"
  /\ gt = GtIdle
  /\ program = "None"
  /\ occ = [min |-> -1, n |-> 0]
  /\ wire = WireIdle

(***************************************************************************)
(* setup()                                                                 *)
(***************************************************************************)
RECURSIVE WIFI_Connect(_, _)
\* n polls find the WiFi not connected; each blinks the LED black, then green
WIFI_Connect(s, n) ==
  IF s.busy < 0 \/ n = 0 THEN s
  ELSE WIFI_Connect(setLEDColor(delay(setLEDColor(delay(s, 250), black), 250), green), n - 1)

\* setup() up to initNTP's setSyncProvider, whose now() calls the provider
Setup ==
  /\ pc = "setup"
  /\ \E configured \in BOOLEAN, n \in WifiPolls, up \in ColdInstants :
       LET s0 == delay(hvEnable([shield EXCEPT !.log = <<>>, !.busy = 0], FALSE), 1000)
           s1 == IF configured THEN WIFI_Connect(s0, n) ELSE s0
           s2 == delay(s1, 100)
       IN /\ IF configured THEN up = BlockedSeconds(s2) ELSE up >= BlockedSeconds(s2)
          /\ shield' = s2
          /\ sysTime' = up
  /\ nextSyncTime' = sysTime
  /\ pc' = "getTime"
  /\ ret' = "setup2"
  /\ gt' = GtIdle
  /\ program' = "Setup"
  /\ UNCHANGED <<timeStatus, previousMinute, minutes, dotToggle, clockOn,
                 previousSecond, rtc, occ, wire>>

\* the rest of setup(): setSyncInterval, then the start-up sweep
Setup2 ==
  /\ pc = "setup2"
  /\ nextSyncTime' = sysTime + SYNC_INTERVAL_SECONDS
  /\ shield' = doAntiPoisoning(hvEnable(dotsEnable(setLEDColor(
                  [shield EXCEPT !.log = <<>>, !.busy = 0], black), FALSE), TRUE))
  /\ pc' = "loop"
  /\ UNCHANGED <<sysTime, timeStatus, previousMinute, minutes, dotToggle, clockOn,
                 previousSecond, rtc, ret, gt, program, occ, wire>>

(***************************************************************************)
(* NTP::getTime, called by TimeLib's now() when a sync is due              *)
(***************************************************************************)
\* Variant of MoreAttempts with an inclusive bound
MoreAttemptsInclusive(i) == i <= RETRIES

\* the loop condition of getTime
MoreAttempts(i) == i < RETRIES

\* What _getTime returns on its call number k + 1 of a resolve in which the
\* network gives no usable reply to the first `fails` requests and the time r to
\* every later one (0: no usable reply)
Reply(fails, r, k) == IF k < fails THEN 0 ELSE r

\* Requests a resolve may see fail before one is answered
FailCounts == {0, 1, RETRIES - 1, RETRIES}

RECURSIVE rtcPoll(_, _, _, _)
\* _getRTCTime's while loop from its pass number polls + 1 on, entered `elapsed`
\* ms after RTC_ReadingStartTime: the read, then the test of the 3000 ms, then
\* the loop condition
rtcPoll(polls, elapsed, changeMs, readMs) ==
  LET seen == Len(changeMs) > 0 /\ elapsed >= changeMs[1]
      tested == elapsed + readMs
  IN IF tested > RTC_TIMEOUT
     THEN [isRTCAvailable |-> FALSE, seen |-> seen, polls |-> polls + 1]
     ELSE IF seen
     THEN [isRTCAvailable |-> TRUE, seen |-> TRUE, polls |-> polls + 1]
     ELSE rtcPoll(polls + 1, tested, changeMs, readMs)

\* How a polling loop ended, in the terms of RtcResult below
Observed(poll) ==
  IF poll.isRTCAvailable THEN "change" ELSE IF poll.seen THEN "late" ELSE "none"

RECURSIVE getTimeLoop(_, _, _)
\* getTime's for loop from the locals g on: leaves on the first nonzero result
getTimeLoop(g, fails, r) ==
  IF MoreAttempts(g.i)
  THEN LET result == Reply(fails, r, g.calls)
       IN IF result # 0
          THEN [g EXCEPT !.result = result, !.calls = @ + 1]
          ELSE getTimeLoop([g EXCEPT !.i = @ + 1, !.calls = @ + 1], fails, r)
  ELSE g

\* Variant of RtcResult that ignores isRTCAvailable
RtcResultUnchecked(c, obs) == makeTime(getRTCTime(setRTCDateTime(breakTime(c + 1))))

\* What _getRTCTime returns.  c is the count the chip holds at the first read;
\* obs tells how the polling ends: "change" - a read within 3000 ms shows a new
\* second; "late" - the read that shows it comes after 3000 ms; "none" - the
\* seconds never change.
RtcResult(c, obs) ==
  IF obs = "change"
  THEN makeTime(getRTCTime(setRTCDateTime(breakTime(c + 1))))
  ELSE 0

\* getTime(): the retry loop, the write of the hardware clock on success, the
\* fallback to the hardware clock when the loop is exhausted
\* A resolve is given by the reply p that parsePacket() finds and the number of
\* requests that find none before it; a reply of which _getTime makes 0 leaves
\* every request of the resolve without a time.
GetTime ==
  /\ pc = "getTime"
  /\ \E n \in FailCounts, p \in NetReplies :
       LET r == Value32(_getTime(p))
           fails == IF r = 0 THEN RETRIES ELSE n
           got == IF r # 0 /\ n = RETRIES THEN NoReply ELSE p
           g == getTimeLoop([GtIdle EXCEPT !.fails = fails, !.pkt = got,
                                           !.word = _getTime(got)], fails, r)
       IN IF g.result # 0
          THEN /\ rtc' = setRTCDateTime(breakTime(g.result))
               /\ gt' = [g EXCEPT !.rtcWrites = @ + 1, !.tm = breakTime(g.result)]
          ELSE /\ rtc' = rtc
               /\ \E c \in RtcTimes, changeMs \in ChangeTimes, readMs \in ReadTimes :
                    LET poll == rtcPoll(0, 0, changeMs, readMs)
                        obs == Observed(poll)
                    IN gt' = [g EXCEPT !.result = RtcResult(c, obs), !.rtcReads = @ + 1,
                                       !.rtcChanged = (obs = "change"),
                                       !.polls = poll.polls, !.rtcSeen = poll.seen,
                                       !.m = getRTCTime(setRTCDateTime(breakTime(
                                               IF poll.seen THEN c + 1 ELSE c)))]
  /\ pc' = "now"
  /\ UNCHANGED <<sysTime, timeStatus, nextSyncTime, previousMinute, minutes,
                 dotToggle, clockOn, previousSecond, shield, ret, program, occ, wire>>

\* TimeLib's now() after the provider returned t: setTime(t) when t # 0,
\* otherwise only the next sync is scheduled
SyncInterval == IF ret = "setup2" THEN 300 ELSE SYNC_INTERVAL_SECONDS

NowReturn ==
  /\ pc = "now"
  /\ IF gt.result # 0
     THEN /\ sysTime' = gt.result
          /\ nextSyncTime' = gt.result + SyncInterval
          /\ timeStatus' = "timeSet"
     ELSE /\ sysTime' = sysTime
          /\ nextSyncTime' = sysTime + SyncInterval
          /\ timeStatus' = IF timeStatus = "timeNotSet" THEN "timeNotSet" ELSE "timeNeedsSync"
  /\ pc' = ret
  /\ gt' = GtIdle
  /\ UNCHANGED <<previousMinute, minutes, dotToggle, clockOn, previousSecond,
                 shield, rtc, ret, program, occ, wire>>

(***************************************************************************)
(* loop()                                                                  *)
(***************************************************************************)
\* esp_restart(): the program starts over; only the hardware clock keeps its state
Restart ==
  /\ sysTime' = 0
  /\ timeStatus' = "timeNotSet"
  /\ nextSyncTime' = 0
  /\ previousMinute' = 0
  /\ minutes' = 0
  /\ dotToggle' = FALSE
  /\ clockOn' = TRUE
  /\ previousSecond' = 0
  /\ shield' = ShieldInit
  /\ rtc' = rtc
  /\ pc' = "setup"
  /\ ret' = "setup2"
  /\ gt' = GtIdle
  /\ program' = "None"
  /\ occ' = [min |-> -1, n |-> 0]
  /\ wire' = wire

\* The earliest element of a set of instants, as a set (empty when there is none)
Earliest(S) == {t \in S : \A u \in S : t <= u}

\* The instants the clock may show at this iteration's first call of now().
\* At least the time spent blocked since the last call has passed (the delays of
\* the routine that ran last, and of a reconnect in this iteration), and at most
\* one second more.  When the configuration portal blocked the loop, the pause
\* ends at a later observed instant, two seconds or one second before a full
\* minute, at which a tick is due; a pause that runs past the next sync ends at
\* the first such instant past it.  While no time is set no tick is due and any
\* number of idle iterations is one step.
Landings(s, paused) ==
  LET lo == sysTime + BlockedSeconds(s)
      ends == {t \in Instants : /\ t > lo + 1
                                /\ second(t) \in {58, 59}
                                /\ second(t) # previousSecond}
  IN IF timeStatus = "timeNotSet" THEN {t \in ColdInstants : t >= lo}
     ELSE IF paused
     THEN {t \in ends : t < nextSyncTime} \cup Earliest({t \in ends : t >= nextSyncTime})
     ELSE {t \in Instants : t >= lo /\ t <= lo + 1}

\* The loop body up to timeStatus(), whose now() advances the clock and, when a
\* sync is due, calls the provider.
\*   lost  : the connection check is due and finds the WiFi not connected
\*   n     : polls of WIFI_Connect that find it still not connected
\*   click : "none", "click" (the set button: configuration portal) or "long"
LoopCheck ==
  /\ pc = "loop"
  /\ \E lost \in BOOLEAN, n \in WifiPolls, click \in {"none", "click", "long"} :
       /\ lost \/ n = 0
       /\ IF click = "long"
          THEN Restart
          ELSE LET s1 == IF lost THEN WIFI_Connect(shield, n) ELSE shield
                   s2 == [s1 EXCEPT !.log = <<>>, !.busy = 0]
               IN \E t \in Landings(s1, click = "click") :
                    /\ sysTime' = t
                    /\ shield' = s2
                    /\ IF nextSyncTime <= t
                       THEN pc' = "getTime" /\ ret' = "tick"
                       ELSE pc' = "tick" /\ ret' = ret
                    /\ gt' = GtIdle
                    /\ UNCHANGED <<timeStatus, nextSyncTime, previousMinute, minutes,
                                   dotToggle, clockOn, previousSecond, rtc, program, occ, wire>>

\* Variant of TickDue that does not ask for the time status
TickDueAnyStatus == second(sysTime) # previousSecond

\* if (timeStatus() != timeNotSet) if (second() != previousSecond)
TickDue == timeStatus # "timeNotSet" /\ second(sysTime) # previousSecond

NoTick ==
  /\ pc = "tick"
  /\ ~TickDue
  /\ pc' = "loop"
  /\ UNCHANGED <<sysTime, timeStatus, nextSyncTime, previousMinute, minutes, dotToggle,
                 clockOn, previousSecond, shield, rtc, ret, gt, program, occ, wire>>

\* The minute occurrence after an On tick at local time lt that ran prog
NextOcc(o, lt, prog) ==
  LET ev == IF prog \in EventPrograms THEN 1 ELSE 0
  IN IF o.min = lt \div 60 THEN [o EXCEPT !.n = @ + ev]
     ELSE [min |-> lt \div 60, n |-> ev]

\* previousSecond = second(); updateDisplay();
UpdateDisplay ==
  /\ pc = "tick"
  /\ TickDue
  /\ previousSecond' = second(sysTime)
  /\ \E localTime \in {toLocal(sysTime)} :
       LET hr == hour(localTime)
           s0 == [shield EXCEPT !.log = <<>>, !.busy = 0]
       IN IF InOnWindow(hr)
          THEN LET m == minute(localTime)
                   prog == Dispatch(m, previousMinute)
               IN /\ clockOn' = TRUE
                  /\ minutes' = m
                  /\ previousMinute' = NextPreviousMinute(prog, m, previousMinute)
                  /\ dotToggle' = NextDotToggle(prog, dotToggle)
                  /\ shield' = RunProgram(prog, PowerOn(s0, clockOn), localTime, dotToggle)
                  /\ program' = prog
                  /\ occ' = NextOcc(occ, localTime, prog)
          ELSE /\ clockOn' = FALSE
               /\ shield' = PowerOff(s0, clockOn)
               /\ program' = IF clockOn THEN "ShutDown" ELSE "Off"
               /\ occ' = [min |-> -1, n |-> 0]
               /\ UNCHANGED <<minutes, previousMinute, dotToggle>>
  /\ pc' = "loop"
  /\ UNCHANGED <<sysTime, timeStatus, nextSyncTime, rtc, ret, gt, wire>>

(***************************************************************************)
(* Specification                                                           *)
(***************************************************************************)
Next ==
  \/ Setup
  \/ Setup2
  \/ GetTime
  \/ NowReturn
  \/ LoopCheck
  \/ NoTick
  \/ UpdateDisplay

Spec == Init /\ [][Next]_vars

(***************************************************************************)
(* _getTime on its own: one call for each reply of a larger set            *)
(***************************************************************************)
StampBytes == {0, 3, 4, 126, 128, 131, 170, 228, 255}
ReplySizes == {0, 47, NTP_PACKET_SIZE, 68}

DecodeInit ==
  /\ sysTime = 0
  /\ timeStatus = "timeNotSet"
  /\ nextSyncTime = 0
  /\ previousMinute = 0
  /\ minutes = 0
  /\ dotToggle = FALSE
  /\ clockOn = TRUE
  /\ previousSecond = 0
  /\ shield = ShieldInit
  /\ rtc \in {setRTCDateTime(breakTime(t)) : t \in RtcTimes}
  /\ pc = "getTime"
  /\ ret = "setup2"
  /\ \E n \in ReplySizes, a \in StampBytes, b \in StampBytes, c \in StampBytes,
        d \in StampBytes :
       gt = [GtIdle EXCEPT !.pkt = [size |-> n, stamp |-> <<a, b, c, d>>]]
  /\ program = "None"
  /\ occ = [min |-> -1, n |-> 0]
  /\ wire = WireIdle

\* one call of _getTime that finds the reply gt.pkt
Decode ==
  /\ pc = "getTime"
  /\ gt' = [gt EXCEPT !.word = _getTime(gt.pkt), !.calls = @ + 1]
  /\ pc' = "now"
  /\ UNCHANGED <<sysTime, timeStatus, nextSyncTime, previousMinute, minutes, dotToggle,
                 clockOn, previousSecond, shield, rtc, ret, program, occ, wire>>

DecodeSpec == DecodeInit /\ [][Decode]_vars

(***************************************************************************)
(* show() on its own: one call for each frame of a larger set              *)
(***************************************************************************)
\* Values a slot is set to, and the frames shown: all slots hold one of three
\* values but two, which hold any pair of values (frame[n] is the value of NXn)
DigitValues == 0 .. BLANK_DIGIT
Frames ==
  {[n \in 1 .. 6 |-> IF n = j THEN a ELSE IF n = k THEN b ELSE c] :
     j \in 1 .. 6, k \in 1 .. 6, a \in DigitValues, b \in DigitValues,
     c \in {0, 9, BLANK_DIGIT}}

\* What the read past SymbolArray may find
BeyondWords == {{}, {4}, {2, 13, 25}}

FrameInit ==
  /\ sysTime = 0
  /\ timeStatus = "timeNotSet"
  /\ nextSyncTime = 0
  /\ previousMinute = 0
  /\ minutes = 0
  /\ dotToggle = FALSE
  /\ clockOn = TRUE
  /\ previousSecond = 0
  /\ shield = ShieldInit
  /\ rtc \in {setRTCDateTime(breakTime(t)) : t \in RtcTimes}
  /\ pc = "show"
  /\ ret = "setup2"
  /\ gt = GtIdle
  /\ program = "None"
  /\ occ = [min |-> -1, n |-> 0]
  /\ wire = WireIdle

\* the six slots and the indicators are set and show() is called
Render ==
  /\ pc = "show"
  /\ \E frame \in Frames, dots \in BOOLEAN, beyond \in BeyondWords :
       LET s1 == setNX3Digit(setNX2Digit(setNX1Digit(ShieldInit, frame[1]), frame[2]),
                             frame[3])
           s2 == setNX6Digit(setNX5Digit(setNX4Digit(s1, frame[4]), frame[5]),
                             frame[6])
           s3 == dotsEnable(s2, dots)
       IN /\ shield' = show(s3)
          /\ wire' = showPins(s3.digits, s3.dots, beyond)
  /\ pc' = "shown"
  /\ UNCHANGED <<sysTime, timeStatus, nextSyncTime, previousMinute, minutes, dotToggle,
                 clockOn, previousSecond, rtc, ret, gt, program, occ>>

FrameSpec == FrameInit /\ [][Render]_vars

(***************************************************************************)
(* The date display applied to one local time                              *)
(***************************************************************************)
\* Years, months and days of the dates displayed; a reply of the time server
\* or the hardware clock can set the system clock to any of them
DateYears == {1971, 1999, 2000, 2009, 2010, 2021, 2037}
DateMonths == {1, 9, 10, 12}
DateDays == {1, 9, 10, 28}

\* 20:10:00 UTC of a date, which is 12:10 or 13:10 of that date in local time
DateAt(y, m, d) ==
  makeTime([Second |-> 0, Minute |-> 10, Hour |-> 20, Wday |-> 1,
            Day |-> d, Month |-> m, Year |-> y - 1970])
DateTimes == {DateAt(y, m, d) : y \in DateYears, m \in DateMonths, d \in DateDays}

\* What a read outside NUMERIC_DIGITS may find, as stored in a uint16_t
StrayCodes == {0, 255, 4660}

DateInit ==
  /\ sysTime \in DateTimes
  /\ timeStatus = "timeSet"
  /\ nextSyncTime = sysTime + SYNC_INTERVAL_SECONDS
  /\ previousMinute = 9
  /\ minutes = 9
  /\ dotToggle \in BOOLEAN
  /\ clockOn = TRUE
  /\ previousSecond = 59
  /\ shield \in {ShieldInit @@ [stray |-> c] : c \in StrayCodes}
  /\ rtc = setRTCDateTime(breakTime(sysTime))
  /\ pc = "tick"
  /\ ret = "setup2"
  /\ gt = GtIdle
  /\ program = "ShowTime"
  /\ occ = [min |-> -1, n |-> 0]
  /\ wire = WireIdle

\* One call of updateDisplay, made in minute 10 of an on-hour of the date
DateSpec == DateInit /\ [][UpdateDisplay]_vars

(***************************************************************************)
(* setRTCDateTime followed by getRTCTime, for one broken-down time         *)
(***************************************************************************)
\* The broken-down times written: every year field 0..99, every hour 0..23,
\* the ends of the ranges of the other fields
TmValues ==
  [Second : {0, 59}, Minute : {0, 59}, Hour : 0 .. 23, Wday : {1, 7},
   Day : {1, 31}, Month : {1, 12}, Year : 0 .. 99]

RtcInit ==
  /\ sysTime = 0
  /\ timeStatus = "timeNotSet"
  /\ nextSyncTime = 0
  /\ previousMinute = 0
  /\ minutes = 0
  /\ dotToggle = FALSE
  /\ clockOn = TRUE
  /\ previousSecond = 0
  /\ shield = ShieldInit
  /\ rtc \in {setRTCDateTime(breakTime(t)) : t \in RtcTimes}
  /\ pc = "rtc"
  /\ ret = "setup2"
  /\ gt \in {[GtIdle EXCEPT !.tm = tm] : tm \in TmValues}
  /\ program = "None"
  /\ occ = [min |-> -1, n |-> 0]
  /\ wire = WireIdle

\* setRTCDateTime(tm), then getRTCTime(m)
WriteRead ==
  /\ pc = "rtc"
  /\ rtc' = setRTCDateTime(gt.tm)
  /\ gt' = [gt EXCEPT !.m = getRTCTime(rtc'), !.rtcWrites = @ + 1, !.rtcReads = @ + 1]
  /\ pc' = "read"
  /\ UNCHANGED <<sysTime, timeStatus, nextSyncTime, previousMinute, minutes, dotToggle,
                 clockOn, previousSecond, shield, ret, program, occ, wire>>

RtcSpec == RtcInit /\ [][WriteRead]_vars

(***************************************************************************)
(* Properties                                                              *)
(***************************************************************************)
\* A step taken from a state that satisfies Tick is a call of updateDisplay
Tick == pc = "tick" /\ TickDue

\* The local time that call reads, and whether the hour of a local time lies in
\* the on-window
LocalNow == toLocal(sysTime)
OnHour(lt) == hour(lt) >= 7 /\ hour(lt) < 23

HasOp(log, op) == \E k \in DOMAIN log : log[k] = op
Positions(log, op) == {k \in DOMAIN log : log[k] = op}

\* The lengths (ms) of the delays in a log.  Each display program has its own:
\* the anti-poisoning sweep waits 500 ms per step, the rainbow 400 ms per
\* colour, the date display 10 s once, and the time display never waits.
DelaysOf(log) == {log[k][2] : k \in {j \in DOMAIN log : log[j][1] = "delay"}}

DelaysIn(prog) ==
  CASE prog = "AntiPoisoning" -> {500}
    [] prog = "Rainbow" -> {400}
    [] prog = "ShowDate" -> {10000}
    [] OTHER -> {}

\* The program the priority rule selects for (minute, previousMinute)
Selected(m, prev) ==
  IF m # prev /\ m = 0 THEN "AntiPoisoning"
  ELSE IF m # prev /\ m # 0 /\ m % 15 = 0 THEN "Rainbow"
  ELSE IF m # prev /\ m # 0 /\ m % 10 = 0 THEN "ShowDate"
  ELSE "ShowTime"

\* C1: every call of updateDisplay made in an on-hour runs exactly one display
\* program, the one the priority rule selects from (minute, previousMinute):
\* anti-poisoning, else rainbow, else date, else time.  The operations it
\* performs are those of that program and of no other.
C1_DispatchPriority ==
  [][Tick => \E lt \in {LocalNow} :
       OnHour(lt) =>
         /\ program' = Selected(minute(lt), previousMinute)
         /\ DelaysOf(shield'.log) = DelaysIn(program')]_vars

\* C1, its case: a tick in minute 30 has run the rainbow
C1_Minute30Rainbow ==
  /\ pc = "loop"
  /\ program = "Rainbow"
  /\ minutes = 30
  /\ DelaysOf(shield.log) = {400}

\* The tick about to be taken ends the occurrence of the local minute in which
\* the latest on-hour ticks were taken
OccEnds ==
  /\ Tick
  /\ occ.min # -1
  /\ \E lt \in {LocalNow} : ~OnHour(lt) \/ lt \div 60 # occ.min

\* C2: when an occurrence of local minute 0 in which the clock was on and ticks
\* were taken ends, the anti-poisoning sweep has been dispatched exactly once
\* in it.
C2_AntiPoisoningOncePerHour ==
  (OccEnds /\ occ.min % 60 = 0) => occ.n = 1

\* C3: when an occurrence of a local minute m # 0 divisible by 15 (rainbow) or
\* by 10 (date) in which the clock was on and ticks were taken ends, the
\* program of that minute has been dispatched exactly once in it.
C3_EventOncePerMinute ==
  (OccEnds /\ occ.min % 60 # 0 /\ ((occ.min % 60) % 15 = 0 \/ (occ.min % 60) % 10 = 0))
    => occ.n = 1

\* C4: a call of updateDisplay stores the minute in previousMinute exactly when
\* it runs one of the three event programs, and otherwise (time display, tick
\* outside the window) leaves previousMinute alone; a tick whose minute equals
\* previousMinute runs no event program; no minute sees a second event program.
C4_PreviousMinute ==
  [][Tick => \E lt \in {LocalNow} :
       /\ IF OnHour(lt) /\ program' \in {"AntiPoisoning", "Rainbow", "ShowDate"}
          THEN previousMinute' = minute(lt) /\ previousMinute # minute(lt)
          ELSE previousMinute' = previousMinute
       /\ (OnHour(lt) /\ minute(lt) = previousMinute) => program' = "ShowTime"
       /\ occ'.n <= 1]_vars

\* C4, its case: after an event program, a later tick of the same minute has
\* shown the time
C4_LaterTickSameMinute ==
  /\ pc = "loop"
  /\ program = "ShowTime"
  /\ occ.n = 1
  /\ previousMinute = minutes

\* C5: after every call of updateDisplay clockOn tells whether the local hour
\* lies in [7, 23) and the high voltage output equals clockOn; the high voltage
\* is switched on by exactly the calls that find the hour inside the window
\* and the clock off.
C5_PowerFollowsWindow ==
  [][Tick => \E lt \in {LocalNow} :
       /\ clockOn' = OnHour(lt)
       /\ shield'.hv = clockOn'
       /\ HasOp(shield'.log, <<"hv", 1>>) = (OnHour(lt) /\ ~clockOn)]_vars

\* C5, its case: the tick that switched the clock on
C5_SwitchedOn ==
  /\ pc = "loop"
  /\ program \in {"AntiPoisoning", "Rainbow", "ShowDate", "ShowTime"}
  /\ HasOp(shield.log, <<"hv", 1>>)
  /\ hour(LocalNow) = 7

AllBlank == <<DIGIT_BLANK, DIGIT_BLANK, DIGIT_BLANK, DIGIT_BLANK, DIGIT_BLANK, DIGIT_BLANK>>

\* C6: a call of updateDisplay outside the window shuts down exactly when the
\* clock was on, and then leaves the clock off (so that the next such call does
\* not shut down again), the committed frame blank in all six slots with the
\* indicators off, and the LEDs black.
C6_ShutDownOnce ==
  [][(Tick /\ ~OnHour(LocalNow)) =>
       /\ ~clockOn'
       /\ HasOp(shield'.log, <<"hv", 0>>) = clockOn
       /\ HasOp(shield'.log, <<"show">>) = clockOn
       /\ clockOn => /\ shield'.shown = [digits |-> AllBlank, dots |-> FALSE]
                     /\ ~shield'.dots
                     /\ shield'.led = <<0, 0, 0>>]_vars

\* C6, its case: the shutdown at 23:00 after a tick at 22:59
C6_ShutDownAt23 ==
  /\ pc = "loop"
  /\ program = "ShutDown"
  /\ hour(LocalNow) = 23
  /\ minutes = 59

\* C7: in the shutdown the indicators are disabled first, then the six slots
\* are set to blank, then the frame is committed, once, and the LEDs are set
\* to black only after that.
C7_ShutDownOrder ==
  [][(Tick /\ clockOn /\ ~OnHour(LocalNow)) =>
       LET log == shield'.log
           dotsOff == Positions(log, <<"dots", 0>>)
           shows == Positions(log, <<"show">>)
           blacks == Positions(log, <<"led", 0, 0, 0>>)
       IN /\ dotsOff # {} /\ blacks # {}
          /\ Cardinality(shows) = 1
          /\ \A n \in 1 .. 6 :
               /\ Positions(log, <<"nx", n, BLANK_DIGIT>>) # {}
               /\ \A k \in Positions(log, <<"nx", n, BLANK_DIGIT>>) :
                    (\A d \in dotsOff : d < k) /\ (\A c \in shows : k < c)
          /\ \A c \in shows, b \in blacks : c < b]_vars

\* C7, its case: a shutdown has run its ten operations
C7_ShutDownRan ==
  /\ pc = "loop"
  /\ program = "ShutDown"
  /\ Len(shield.log) = 10

\* C8: a call of updateDisplay outside the window while the clock is already
\* off performs no shield operation and changes neither the slots, the
\* indicators, the LED colour, the committed frame, previousMinute nor
\* dotToggle.
C8_OffTickIdle ==
  [][(Tick /\ ~clockOn /\ ~OnHour(LocalNow)) =>
       /\ shield'.log = <<>>
       /\ shield'.digits = shield.digits
       /\ shield'.dots = shield.dots
       /\ shield'.led = shield.led
       /\ shield'.shown = shield.shown
       /\ shield'.hv = shield.hv
       /\ previousMinute' = previousMinute
       /\ dotToggle' = dotToggle]_vars

\* C8, its case: a tick taken while the clock was off already
C8_TickWhileOff ==
  /\ pc = "loop"
  /\ program = "Off"
  /\ ~clockOn
  /\ shield.log = <<>>

\* C9: getTime never asks the network more than 20 times; when the network
\* answers request number k <= 20 it has asked exactly k times and has not read
\* the hardware clock; it reads the hardware clock, once, exactly when 20
\* requests have gone unanswered.
C9_RetriesThenClock ==
  /\ gt.calls <= 20
  /\ gt.calls = gt.i + (IF gt.rtcReads = 0 /\ gt.result # 0 THEN 1 ELSE 0)
  /\ pc = "now" =>
       IF gt.fails < 20
       THEN gt.calls = gt.fails + 1 /\ gt.rtcReads = 0 /\ gt.result # 0
       ELSE gt.calls = 20 /\ gt.rtcReads = 1

\* C9, its case: 20 requests failed and the hardware clock has been read
C9_FellBack ==
  /\ pc = "now"
  /\ gt.calls = 20
  /\ gt.rtcReads = 1
  /\ gt.rtcChanged

\* C10: when 20 requests failed and the hardware clock showed no new second
\* in time, getTime returns 0, and now() leaves the system time as it is and a
\* time that was set stays set.
C10_NoTimeKeepsClock ==
  [][(pc = "now" /\ gt.rtcReads = 1 /\ ~gt.rtcChanged) =>
       /\ gt.calls = 20
       /\ gt.result = 0
       /\ sysTime' = sysTime
       /\ nextSyncTime' > sysTime'
       /\ (timeStatus # "timeNotSet") => (timeStatus' = "timeNeedsSync")]_vars

\* C10, its case: a resolve failed altogether after the time had been set
C10_FailedWhileSet ==
  /\ pc = "tick"
  /\ timeStatus = "timeNeedsSync"
  /\ sysTime \in Instants

\* C11: getTime writes the hardware clock exactly when one of its requests was
\* answered with a time, once, with the fields of the time it returns, which
\* the registers give back unchanged; when it falls back to the hardware clock
\* or fails altogether it writes nothing and the registers stay as they were.
C11_ClockWrittenOnSuccess ==
  [][pc = "getTime" =>
       IF gt'.fails < RETRIES
       THEN /\ gt'.rtcWrites = 1
            /\ gt'.rtcReads = 0
            /\ gt'.result # 0
            /\ getRTCTime(rtc') = breakTime(gt'.result)
       ELSE /\ gt'.rtcWrites = 0
            /\ gt'.rtcReads = 1
            /\ rtc' = rtc]_vars

\* C11, its case: the last of the 20 requests was answered and the hardware
\* clock holds the time returned
C11_WrittenOnLastAttempt ==
  /\ pc = "now"
  /\ gt.calls = RETRIES
  /\ gt.rtcWrites = 1
  /\ getRTCTime(rtc) = breakTime(gt.result)

\* The bytes of an unsigned long, most significant first, and the sum of two
\* such byte strings in 32-bit unsigned arithmetic
BytesOf(w) == <<w[1] \div 256, w[1] % 256, w[2] \div 256, w[2] % 256>>
EpochBytes == <<131, 170, 126, 128>>
PlusBytes(x, y) ==
  LET s4 == x[4] + y[4]
      s3 == x[3] + y[3] + s4 \div 256
      s2 == x[2] + y[2] + s3 \div 256
      s1 == x[1] + y[1] + s2 \div 256
  IN <<s1 % 256, s2 % 256, s3 % 256, s4 % 256>>

\* The timestamp b minus 2,208,988,800 as an integer (for b[1] >= 4, where it
\* can be written down), and the signed reading of an unsigned long
ExactDifference(b) ==
  (b[1] - 131) * 16777216 + (b[2] - 170) * 65536 + (b[3] - 126) * 256 + (b[4] - 128)
Signed32(w) == IF w[1] < 32768 THEN Value32(w) ELSE (w[1] - 65536) * 65536 + w[2]

\* C12: for every reply of 48 bytes the time decoded is the big-endian value
\* of bytes 40..43 minus 2,208,988,800 in 32-bit unsigned arithmetic (adding
\* 2,208,988,800 back gives the four bytes); for E4 00 00 00 it is
\* 1,616,216,448; for a timestamp of at least 2,208,988,800 it is the exact
\* difference, and below that the difference plus 2^32.
C12_DecodedTime ==
  (pc = "now" /\ gt.calls = 1 /\ gt.pkt.size = 48) =>
     /\ PlusBytes(BytesOf(gt.word), EpochBytes) = gt.pkt.stamp
     /\ (gt.pkt.stamp = <<228, 0, 0, 0>>) =>
          (gt.word[1] < 32768 /\ Value32(gt.word) = 1616216448)
     /\ (gt.pkt.stamp[1] >= 4) =>
          /\ Signed32(gt.word) = ExactDifference(gt.pkt.stamp)
          /\ (ExactDifference(gt.pkt.stamp) >= 0) => (gt.word[1] < 32768)

\* C12, its case: the reply whose timestamp is E4 00 00 00 has been decoded
C12_DecodedE4 ==
  /\ pc = "now"
  /\ gt.calls = 1
  /\ gt.pkt = [size |-> 48, stamp |-> <<228, 0, 0, 0>>]
  /\ Value32(gt.word) = 1616216448

\* A reply that carries no valid time: none, one of another size than 48
\* bytes, or one whose timestamp lies before 1970 (the all-zero field included)
BeforeEpoch(b) ==
  \E k \in 1 .. 4 : b[k] < EpochBytes[k] /\ \A j \in 1 .. k - 1 : b[j] = EpochBytes[j]
NotATime(p) == p.size # 48 \/ BeforeEpoch(p.stamp)

\* C13: a resolve whose requests find a reply that carries no valid time gets
\* 0 from _getTime each time, asks 20 times, and neither returns a time made
\* from that reply nor writes the hardware clock.
C13_InvalidReplyFails ==
  (pc = "now" /\ gt.calls > 0 /\ NotATime(gt.pkt)) =>
     /\ gt.word = <<0, 0>>
     /\ gt.calls = RETRIES
     /\ gt.rtcWrites = 0
     /\ gt.result # 0 => gt.rtcReads = 1

\* C19: updateDisplay is not called while the time status is not-set: a tick
\* taken then changes neither the shield nor any global of the sketch, and as
\* long as no resolve has succeeded since power-up no display program has run.
C19_NoDisplayBeforeTime ==
  /\ [](timeStatus = "timeNotSet" => program \in {"None", "Setup"})
  /\ [][(pc = "tick" /\ timeStatus = "timeNotSet") =>
          /\ shield' = shield
          /\ program' = program
          /\ previousSecond' = previousSecond
          /\ previousMinute' = previousMinute
          /\ dotToggle' = dotToggle
          /\ clockOn' = clockOn]_vars

\* C19, its case: the loop reaches its test of the time status after every
\* resolve has failed, at a second that differs from previousSecond
C19_ColdTick ==
  /\ pc = "tick"
  /\ timeStatus = "timeNotSet"
  /\ second(sysTime) # previousSecond
  /\ sysTime > 3600

\* C20: when a read of _getRTCTime's polling loop shows a seconds field that
\* differs from the first read, the time built from that read is returned.
C20_ChangeSeenIsReturned ==
  (pc = "now" /\ gt.rtcReads = 1 /\ gt.rtcSeen) =>
     gt.result # 0

\* The value slot NXn was set to before the show() call followed to the pins,
\* the ten bits of the transfer words that belong to the slot (NX6, NX5, NX4 in
\* the first word, NX3, NX2, NX1 in the second, at bits 20, 10 and 0), and the
\* number the low 30 bits of a word stand for
NX(n) == CHOOSE d \in DigitValues : HasOp(shield.log, <<"nx", n, d>>)
FieldWord(n) == IF n >= 4 THEN wire.words[1] ELSE wire.words[2]
FieldBase(n) == 10 * ((n - 1) % 3)
Field(n) == {b - FieldBase(n) : b \in FieldWord(n) \cap (FieldBase(n) .. FieldBase(n) + 9)}
RECURSIVE SumBits(_)
SumBits(w) ==
  IF w = {} THEN 0
  ELSE LET b == CHOOSE x \in w : TRUE IN 2 ^ b + SumBits(w \ {b})
Low30(w) == SumBits(w \cap (0 .. 29))

\* C14: after set-slot and show(), the field of every slot that holds a value
\* v in 0..9 has exactly one asserted bit, bit v.
C14_DigitOneBit ==
  pc = "shown" =>
    \A n \in 1 .. 6 : NX(n) \in 0 .. 9 => Field(n) = {NX(n)}

\* C15: after set-slot and show(), the field of every slot set to BLANK has no
\* asserted bit, in either transfer word.
C15_BlankNoBit ==
  pc = "shown" =>
    \A n \in 1 .. 6 : NX(n) = BLANK_DIGIT => Field(n) = {}

\* The slot values and the indicator state read back from two transfer words
FieldDigit(w, base) == CHOOSE v \in 0 .. 9 : (Low30(w) \div 2 ^ base) % 1024 = 2 ^ v
DecodedFrame(w) ==
  [nx |-> <<FieldDigit(w[2], 0), FieldDigit(w[2], 10), FieldDigit(w[2], 20),
            FieldDigit(w[1], 0), FieldDigit(w[1], 10), FieldDigit(w[1], 20)>>,
   dots |-> 30 \in w[1]]

\* C16: when all six slots hold values in 0..9, the first word is
\* code(NX6) << 20 | code(NX5) << 10 | code(NX4) and the second
\* code(NX3) << 20 | code(NX2) << 10 | code(NX1) with code(v) = 1 << v, bits 30
\* and 31 of both words equal the indicator state whatever else memory holds,
\* and the two words give back the six values and the indicator state.
C16_FrameWords ==
  (pc = "shown" /\ \A n \in 1 .. 6 : NX(n) \in 0 .. 9) =>
     /\ Low30(wire.words[1])
          = 2 ^ NX(6) * 2 ^ 20 + 2 ^ NX(5) * 2 ^ 10 + 2 ^ NX(4)
     /\ Low30(wire.words[2])
          = 2 ^ NX(3) * 2 ^ 20 + 2 ^ NX(2) * 2 ^ 10 + 2 ^ NX(1)
     /\ \A i \in 1 .. 2 :
          /\ wire.words[i] \subseteq 0 .. 31
          /\ (30 \in wire.words[i]) = shield.dots
          /\ (31 \in wire.words[i]) = shield.dots
     /\ DecodedFrame(wire.words) = [nx |-> [n \in 1 .. 6 |-> NX(n)], dots |-> shield.dots]

\* C16, its case: 9 9 9 9 3 7 with the indicators on has been shown
C16_Shown999937 ==
  /\ pc = "shown"
  /\ [n \in 1 .. 6 |-> NX(n)] = <<9, 9, 9, 9, 3, 7>>
  /\ shield.dots
  /\ Low30(wire.words[1]) = 2 ^ 27 + 2 ^ 13 + 2 ^ 9

\* the asserted bits of a byte
BitsOf(byte) == {b \in 0 .. 7 : (byte \div 2 ^ b) % 2 = 1}

\* C17: show() drives the latch low first, then transfers exactly eight
\* bytes, the four bytes of the first word and then of the second, each most
\* significant byte first, and drives the latch high last; between the first
\* and the last byte the latch is not touched.
C17_LatchBracketsTransfer ==
  pc = "shown" =>
     /\ Len(wire.bus) = 10
     /\ wire.bus[1] = <<"latch", 0>>
     /\ wire.bus[10] = <<"latch", 1>>
     /\ \A k \in 2 .. 9 : wire.bus[k][1] = "spi" /\ wire.bus[k][2] \in 0 .. 255
     /\ \A i \in 1 .. 2 :
          wire.words[i] = UNION {{8 * (4 - j) + b : b \in BitsOf(wire.bus[4 * i - 3 + j][2])} :
                                   j \in 1 .. 4}

\* C17, its case: a frame with the indicators on has been transferred, its
\* first byte carrying bits 31 and 30
C17_TransferredWithDots ==
  /\ pc = "shown"
  /\ shield.dots
  /\ Len(wire.bus) = 10
  /\ wire.bus[2][2] >= 192

\* C18: a tick that shows the time sets NX1 to BLANK when the displayed hour h
\* is below 10 and to h / 10 otherwise (with the suppression disabled: to 0
\* when h is below 10), NX2 to h % 10, and NX3..NX6 to the tens and units of
\* the minute and of the second, none of them BLANK; that frame is committed.
C18_ShowTimeDigits ==
  [][(Tick /\ program' = "ShowTime") =>
       \E lt \in {LocalNow} :
         LET h == hourFormat12(lt)
             d == shield'.shown.digits
         IN /\ SUPPRESS_LEADING_ZEROS
            /\ d[6] = IF h < 10 THEN DIGIT_BLANK ELSE h \div 10
            /\ LeadingDigit(h, FALSE) = IF h < 10 THEN 0 ELSE h \div 10
            /\ d[5] = h % 10
            /\ d[4] = minute(lt) \div 10
            /\ d[3] = minute(lt) % 10
            /\ d[2] = second(lt) \div 10
            /\ d[1] = second(lt) % 10
            /\ \A k \in 1 .. 5 : d[k] \in 0 .. 9
            /\ d = shield'.digits]_vars

\* C18, its case: the time has been shown in hour 7, NX1 blank and NX2 7
C18_ShownAtSeven ==
  /\ pc = "loop"
  /\ program = "ShowTime"
  /\ hour(LocalNow) = 7
  /\ shield.shown.digits[6] = DIGIT_BLANK
  /\ shield.shown.digits[5] = 7

(***************************************************************************)
(* The frames a routine commits, read from the operations it performed     *)
(***************************************************************************)
\* The positions of the show() calls in a log, and the number of show() calls
\* made before position p
Shows(log) == Positions(log, <<"show">>)
Rank(log, p) == Cardinality({q \in Shows(log) : q < p})

\* The positions before p of the operations of kind op whose second field is n
Before(log, p, op, n) ==
  {q \in DOMAIN log : q < p /\ log[q][1] = op /\ log[q][2] = n}
Latest(S) == CHOOSE q \in S : \A r \in S : r <= q

\* The value slot n holds in the frame committed at position p: the one the
\* latest set-slot call for NX<n> passed
FrameSlot(log, p, n) == log[Latest(Before(log, p, "nx", n))][3]

\* The indicator state of the frame committed at position p: the one the latest
\* dotsEnable call set
DotsSet(log, p) == {q \in DOMAIN log : q < p /\ log[q][1] = "dots"}
FrameDots(log, p) == log[Latest(DotsSet(log, p))][2]

\* The accent colours set after position p, in positions
LedsAfter(log, p) == {q \in DOMAIN log : q > p /\ log[q][1] = "led"}
Earliest1(S) == CHOOSE q \in S : \A r \in S : q <= r
Colour(e) == <<e[2], e[3], e[4]>>
PureColour(i) ==
  IF i % 3 = 0 THEN <<255, 0, 0>>
  ELSE IF i % 3 = 1 THEN <<0, 255, 0>> ELSE <<0, 0, 255>>

\* doAntiPoisoning has just returned, from setup() or from the tick of minute 0:
\* the operations of the routine that ran last are kept until the next pass of
\* loop() starts
SweepDone ==
  pc = "loop" /\ program \in {"Setup", "AntiPoisoning"} /\ shield.log # <<>>

\* C21: doAntiPoisoning returns after committing exactly 44 frames; the k-th
\* frame (k = 0..43) shows k mod 11 in all six slots, its indicators are on
\* exactly when k is odd (alternating from off), and the accent colour set
\* after the frame of step value i is pure red, green or blue for
\* i mod 3 = 0, 1, 2.
C21_AntiPoisoningFrames ==
  SweepDone =>
    \E log \in {shield.log} :
      /\ Cardinality(Shows(log)) = 44
      /\ \A p \in Shows(log) :
           \E k \in {Rank(log, p)} :
             /\ \A n \in 1 .. 6 : FrameSlot(log, p, n) = k % 11
             /\ FrameDots(log, p) = k % 2
             /\ LedsAfter(log, p) # {}
             /\ Colour(log[Earliest1(LedsAfter(log, p))]) = PureColour(k % 11)

\* C21, its case: the sweep of a minute 0 has returned, its last frame showing
\* BLANK with the indicators on, the accent colour left green
C21_SweepOfMinuteZero ==
  /\ pc = "loop"
  /\ program = "AntiPoisoning"
  /\ Cardinality(Shows(shield.log)) = 44
  /\ shield.shown = [digits |-> [n \in 1 .. 6 |-> DIGIT_BLANK], dots |-> TRUE]
  /\ shield.led = <<0, 255, 0>>

\* The positions of the accent colour changes in a log, and the number of them
\* made before position p
Leds(log) == {q \in DOMAIN log : log[q][1] = "led"}
LedRank(log, p) == Cardinality({q \in Leds(log) : q < p})

\* The rainbow of a minute 15, 30 or 45 has just returned
RainbowDone == pc = "loop" /\ program = "Rainbow" /\ shield.log # <<>>

\* C22: the rainbow first disables the indicators and commits one frame with
\* all six slots BLANK, before any colour change; it then makes exactly 64
\* colour changes, the j-th (j = 0..63) to wheel position 16 * (j mod 16);
\* it commits no further frame and returns with the slots still BLANK and the
\* indicators still off.
C22_RainbowFrameThenColours ==
  RainbowDone =>
    \E log \in {shield.log} :
      /\ Cardinality(Shows(log)) = 1
      /\ \A p \in Shows(log) :
           /\ \A q \in Leds(log) : q > p
           /\ DotsSet(log, p) # {}
           /\ FrameDots(log, p) = 0
           /\ \A n \in 1 .. 6 :
                /\ Before(log, p, "nx", n) # {}
                /\ FrameSlot(log, p, n) = BLANK_DIGIT
           /\ \A q \in DOMAIN log : q > p => log[q][1] \in {"led", "delay"}
      /\ Cardinality(Leds(log)) = 64
      /\ \A q \in Leds(log) :
           Colour(log[q]) = colorWheel(16 * (LedRank(log, q) % 16))
      /\ shield.digits = [n \in 1 .. 6 |-> DIGIT_BLANK]
      /\ shield.dots = FALSE
      /\ shield.shown = [digits |-> shield.digits, dots |-> FALSE]

\* C22, its case: the rainbow of minute 30 has returned, at wheel position 240
C22_RainbowOfMinute30 ==
  /\ RainbowDone
  /\ minutes = 30
  /\ Cardinality(Leds(shield.log)) = 64
  /\ shield.led = colorWheel(240)
  /\ shield.shown.dots = FALSE

\* The date display has just returned
DateDone == pc = "loop" /\ program = "ShowDate" /\ shield.log # <<>>

\* The value set for the tens digit of a field under the leading-zero policy,
\* and for its units digit
TensOf(v) ==
  IF v \div 10 = 0 THEN (IF SUPPRESS_LEADING_ZEROS THEN BLANK_DIGIT ELSE 0)
  ELSE v \div 10
UnitsOf(v) == v % 10

\* The six values of the date of a local time: month, day, year - 2000
DateSlots(lt) ==
  <<TensOf(month(lt)), UnitsOf(month(lt)), TensOf(day(lt)), UnitsOf(day(lt)),
    TensOf(year(lt) - 2000), UnitsOf(year(lt) - 2000)>>

\* C23: for a date whose year - 2000 has two digits (2000..2099), the date
\* display commits one frame with NX1/NX2 = month tens/units, NX3/NX4 = day
\* tens/units and NX5/NX6 = tens/units of year - 2000, a tens digit of 0 being
\* BLANK under suppression and no units digit being BLANK; the indicators are
\* on in that frame; the accent colour is blue when the frame is committed and
\* when the display returns, no colour being set in between.
C23_DateFrame ==
  (DateDone /\ year(LocalNow) - 2000 \in 0 .. 99) =>
    \E log \in {shield.log}, slots \in {DateSlots(LocalNow)} :
      /\ Cardinality(Shows(log)) = 1
      /\ \A p \in Shows(log) :
           /\ \A n \in 1 .. 6 :
                /\ Before(log, p, "nx", n) # {}
                /\ FrameSlot(log, p, n) = slots[n]
           /\ \A n \in {2, 4, 6} : FrameSlot(log, p, n) # BLANK_DIGIT
           /\ DotsSet(log, p) # {}
           /\ FrameDots(log, p) = 1
           /\ \E q \in Leds(log) :
                /\ q < p
                /\ Colour(log[q]) = blue
                /\ \A r \in Leds(log) : r <= q
      /\ shield.shown = [digits |-> [k \in 1 .. 6 |-> NUMERIC_DIGITS[slots[7 - k] + 1]],
                         dots |-> TRUE]
      /\ shield.led = blue

\* C23, its case: the date display of 9 October 2009 has returned, all three
\* tens digits either BLANK or not
C23_ShownNinthOfOctober ==
  /\ DateDone
  /\ DateSlots(LocalNow) = <<1, 0, BLANK_DIGIT, 9, BLANK_DIGIT, 9>>
  /\ shield.shown.digits = <<9, DIGIT_BLANK, 9, DIGIT_BLANK, 0, 1>>
  /\ shield.shown.dots

\* The step about to be taken is a call of updateDisplay that runs the time
\* display
ShowTimeTick ==
  Tick /\ OnHour(LocalNow) /\ Selected(minute(LocalNow), previousMinute) = "ShowTime"

\* C24: the time display sets the indicators to the opposite of what the
\* previous time display set them to, whatever ran in between, and its frame
\* carries that value.  dotToggle holds the value the next time display will
\* set: a time display sets the indicators to dotToggle, commits its frame
\* with them and leaves the complement in dotToggle, and no other step of a
\* run of the program changes dotToggle (esp_restart starts a new run, which
\* has no previous time display).
C24_DotsAlternate ==
  [][IF ShowTimeTick
     THEN /\ program' = "ShowTime"
          /\ DotsSet(shield'.log, Len(shield'.log)) # {}
          /\ \A q \in DotsSet(shield'.log, Len(shield'.log)) :
               shield'.log[q] = <<"dots", B2N(dotToggle)>>
          /\ shield'.log[Len(shield'.log)] = <<"show">>
          /\ shield'.shown.dots = dotToggle
          /\ dotToggle' = ~dotToggle
     ELSE pc' = "setup" \/ dotToggle' = dotToggle]_vars

\* C24, its case: a time display that follows an event program of the same
\* minute has set the indicators on, an earlier one having set them off
C24_OnAfterEvent ==
  /\ pc = "loop"
  /\ program = "ShowTime"
  /\ shield.log # <<>>
  /\ occ.n = 1
  /\ shield.shown.dots
  /\ ~dotToggle

\* C25: every value passed to a set-slot operation (setNX1Digit..setNX6Digit)
\* by a display program lies in 0..10, the indices of the 11-entry digit
\* table, whatever date the system clock holds.
C25_SlotValuesInTable ==
  \A k \in DOMAIN shield.log :
    shield.log[k][1] = "nx" => shield.log[k][3] \in 0 .. BLANK_DIGIT

\* C26: from the completion of the shutdown to the next tick of an on-hour
\* (clockOn is FALSE throughout), the accent colour is black at every point of
\* loop(), the connection check and reconnect attempt included.
C26_BlackWhileOff ==
  (~clockOn /\ pc \in {"loop", "getTime", "now", "tick"}) => shield.led = black

\* The two decimal digits of v, one in each half of a byte
PackedDigits(v) == (v \div 10) * 16 + (v % 10)

\* C27: for every field value v in 0..99, decToBcd(v) = (v / 10) * 16 + v % 10
\* and bcdToDec(decToBcd(v)) = v; writing a broken-down time with
\* setRTCDateTime and reading it back with getRTCTime returns the same second,
\* minute, hour (0..23, the 6-bit mask leaving its byte as written), weekday,
\* day, month and year.
C27_BcdRoundTrip ==
  /\ \A v \in 0 .. 99 :
       /\ decToBcd(v) = PackedDigits(v)
       /\ bcdToDec(decToBcd(v)) = v
  /\ pc = "read" =>
       /\ rtc = <<PackedDigits(gt.tm.Second), PackedDigits(gt.tm.Minute),
                  PackedDigits(gt.tm.Hour), PackedDigits(gt.tm.Wday),
                  PackedDigits(gt.tm.Day), PackedDigits(gt.tm.Month),
                  PackedDigits(gt.tm.Year)>>
       /\ (rtc[3] % 64) = rtc[3]
       /\ gt.m = gt.tm

\* C27, its case: 23:59:59 of day 31 of month 12 of year 99 has been written
\* and read back
C27_LatestTimeReadBack ==
  /\ pc = "read"
  /\ gt.tm = [Second |-> 59, Minute |-> 59, Hour |-> 23, Wday |-> 7,
              Day |-> 31, Month |-> 12, Year |-> 99]
  /\ rtc = <<89, 89, 35, 7, 49, 18, 153>>
  /\ gt.m = gt.tm

=============================================================================
